---- MODULE Spec2Model ----
(***************************************************************************)
(* The stock dashboard of app.py and the trend predictor of model.py.      *)
(*                                                                         *)
(* One rerun of the Streamlit script (a "pass") is the sequence            *)
(*   Request -> Metrics -> ChartTab -> DataTab -> PredictionTab -> NewsTab *)
(* and ends early in st.stop() or in an uncaught exception.                *)
(* The theme radio only selects colours and is left out.                  *)
(*                                                                         *)
(* float64 values are modelled as exact rationals in lowest terms, plus    *)
(* NaN; rounding error of binary floating point is not modelled.           *)
(***************************************************************************)
EXTENDS Integers, Sequences, FiniteSets, TLC

(***************************************************************************)
(* Bounds of the model.                                                    *)
(***************************************************************************)
\* longest "short" fetched table (fewer rows than the rolling window)
MaxShort == 3
\* most rows that vary at the end of a "long" fetched table
MaxTail == 4
\* most calls of yf.download per (symbol, period) that the model follows
MaxFetches == 2
\* most articles the news collaborator returns
MaxNews == 6
\* longest input of the predictor harness
MaxN == 4

(***************************************************************************)
(* float64 as exact rationals.                                             *)
(***************************************************************************)
Abs(x) == IF x < 0 THEN -x ELSE x

RECURSIVE GCD(_, _)
GCD(a, b) == IF b = 0 THEN a ELSE GCD(b, a % b)

NaN == [nan |-> TRUE, n |-> 0, d |-> 1]

\* the rational n/d (d # 0) in lowest terms with a positive denominator
Q(n, d) ==
    LET s == IF d < 0 THEN -1 ELSE 1
        g == GCD(Abs(n), Abs(d))
    IN  [nan |-> FALSE, n |-> (s * n) \div g, d |-> (s * d) \div g]

Num(k) == Q(k, 1)

FAdd(a, b) ==
    IF a.nan \/ b.nan THEN NaN
    ELSE LET g == GCD(a.d, b.d)
         IN  Q(a.n * (b.d \div g) + b.n * (a.d \div g), (a.d \div g) * b.d)

FNeg(a) == IF a.nan THEN NaN ELSE Q(-a.n, a.d)

FSub(a, b) == FAdd(a, FNeg(b))

FMul(a, b) ==
    IF a.nan \/ b.nan THEN NaN
    ELSE LET g1 == GCD(Abs(a.n), b.d)
             g2 == GCD(Abs(b.n), a.d)
         IN  Q((a.n \div g1) * (b.n \div g2), (a.d \div g2) * (b.d \div g1))

\* a / b; 0 / 0 is NaN (no other division by zero arises in the program)
FDiv(a, b) ==
    IF a.nan \/ b.nan \/ b.n = 0 THEN NaN
    ELSE FMul(a, Q(b.d, b.n))

FAbs(a) == IF a.nan THEN NaN ELSE Q(Abs(a.n), a.d)

\* a < b and a > b of float64: every comparison with NaN is false
FLt(a, b) == ~a.nan /\ ~b.nan /\ a.n * b.d < b.n * a.d
FGt(a, b) == FLt(b, a)

RECURSIVE Pow10(_)
Pow10(k) == IF k = 0 THEN 1 ELSE 10 * Pow10(k - 1)

\* round(x, k) and the format spec .kf: to k decimals, ties to even
Round(x, k) ==
    IF x.nan THEN NaN
    ELSE LET p  == Pow10(k)
             s  == FMul(x, Num(p))
             fl == s.n \div s.d
             r  == s.n - fl * s.d
             up == 2 * r > s.d \/ (2 * r = s.d /\ fl % 2 = 1)
         IN  Q(IF up THEN fl + 1 ELSE fl, p)

\* the builtin min(a, b) of Python: b only when b < a
PyMin(a, b) == IF FLt(b, a) THEN b ELSE a

RECURSIVE FSum(_)
FSum(s) == IF s = <<>> THEN Num(0) ELSE FAdd(FSum(SubSeq(s, 1, Len(s) - 1)), s[Len(s)])

Range(s) == {s[i] : i \in 1..Len(s)}

(***************************************************************************)
(* DataFrames: an index (trading dates, as day numbers), the column labels *)
(* (one sequence per level of the column index) and one sequence of values *)
(* per column.                                                             *)
(***************************************************************************)
RawColumns == <<"Adj Close", "Close", "High", "Low", "Open", "Volume">>

Names(df) == df.columns[1]

NRows(df) == Len(df.index)

Row(price, volume) ==
    [c \in Range(RawColumns) |-> IF c = "Volume" THEN volume ELSE price]

DataFrame(rows) ==
    [columns |-> <<RawColumns>>,
     index   |-> [i \in 1..Len(rows) |-> i],
     col     |-> [c \in Range(RawColumns) |-> [i \in 1..Len(rows) |-> rows[i][c]]]]

\* df[name] = values
SetColumn(df, name, values) ==
    [df EXCEPT
       !.columns = <<IF name \in Range(Names(df)) THEN Names(df)
                     ELSE Append(Names(df), name)>>,
       !.col = [c \in Range(Names(df)) \cup {name} |->
                  IF c = name THEN values ELSE df.col[c]]]

\* df.iloc[positions]
Take(df, positions) ==
    [columns |-> df.columns,
     index   |-> [k \in 1..Len(positions) |-> df.index[positions[k]]],
     col     |-> [c \in DOMAIN df.col |->
                    [k \in 1..Len(positions) |-> df.col[c][positions[k]]]]]

RowComplete(df, i) == \A c \in Range(Names(df)) : ~df.col[c][i].nan

RECURSIVE CompleteUpTo(_, _)
CompleteUpTo(df, i) ==
    IF i = 0 THEN <<>>
    ELSE IF RowComplete(df, i) THEN Append(CompleteUpTo(df, i - 1), i)
         ELSE CompleteUpTo(df, i - 1)

\* df.dropna(): the rows without a missing value in any column
dropna(df) == Take(df, CompleteUpTo(df, NRows(df)))

(***************************************************************************)
(* The moving averages of the chart tab.                                   *)
(***************************************************************************)
Window == 20
Span == 20

\* rolling(window, min_periods=1).mean(): the mean of whatever the window holds
RollingMeanAny(s, window) ==
    [i \in 1..Len(s) |->
       LET lo  == IF i - window + 1 < 1 THEN 1 ELSE i - window + 1
           obs == SelectSeq(SubSeq(s, lo, i), LAMBDA v : ~v.nan)
       IN  IF Len(obs) >= 1 THEN FDiv(FSum(obs), Num(Len(obs))) ELSE NaN]

\* Series.rolling(window).mean(): min_periods defaults to the window size
RollingMean(s, window) ==
    [i \in 1..Len(s) |->
       LET lo  == IF i - window + 1 < 1 THEN 1 ELSE i - window + 1
           obs == SelectSeq(SubSeq(s, lo, i), LAMBDA v : ~v.nan)
       IN  IF Len(obs) >= window THEN FDiv(FSum(obs), Num(Len(obs))) ELSE NaN]

\* alpha taken as 2 / span
AlphaOverSpan(span) == Q(2, span)

\* alpha of ewm(span=...)
Alpha(span) == Q(2, span + 1)

\* Series.ewm(span=span, adjust=False).mean() (ignore_na=False, min_periods=0):
\* the running state after the first i values and the outputs so far
RECURSIVE EwmScan(_, _, _)
EwmScan(s, span, i) ==
    IF i = 1
    THEN [weighted |-> s[1], old_wt |-> Num(1),
          nobs |-> IF s[1].nan THEN 0 ELSE 1, out |-> <<s[1]>>]
    ELSE LET p      == EwmScan(s, span, i - 1)
             cur    == s[i]
             nobs   == p.nobs + (IF cur.nan THEN 0 ELSE 1)
             new_wt == Alpha(span)
             decay  == FMul(p.old_wt, FSub(Num(1), Alpha(span)))
             w      == IF p.weighted.nan THEN cur
                       ELSE IF cur.nan THEN p.weighted
                       ELSE IF p.weighted = cur THEN cur
                       ELSE FDiv(FAdd(FMul(decay, p.weighted), FMul(new_wt, cur)),
                                 FAdd(decay, new_wt))
             ow     == IF p.weighted.nan THEN p.old_wt
                       ELSE IF cur.nan THEN decay
                       ELSE Num(1)
         IN  [weighted |-> w, old_wt |-> ow, nobs |-> nobs,
              out |-> Append(p.out, IF nobs >= 1 THEN w ELSE NaN)]

EwmMean(s, span) == IF s = <<>> THEN <<>> ELSE EwmScan(s, span, Len(s)).out

(***************************************************************************)
(* model.py                                                                *)
(***************************************************************************)
FMean(s) == FDiv(FSum(s), Num(Len(s)))

\* LinearRegression().fit(X, y) with one feature: centre, solve, intercept
LinearRegressionFit(X, y) ==
    LET xm  == FMean(X)
        ym  == FMean(y)
        sxx == FSum([i \in 1..Len(X) |-> FMul(FSub(X[i], xm), FSub(X[i], xm))])
        sxy == FSum([i \in 1..Len(X) |-> FMul(FSub(X[i], xm), FSub(y[i], ym))])
        a   == IF sxx.n = 0 THEN Num(0) ELSE FDiv(sxy, sxx)
    IN  [coef_ |-> a, intercept_ |-> FSub(ym, FMul(xm, a))]

\* model.predict([[x]])
ModelPredict(model, x) == FAdd(FMul(model.coef_, x), model.intercept_)

\* the day after the last one
future_day_next(n) == n

\* line 15
future_day(n) == n + 1

\* predict_stock_price(data): raised is the ValueError of fit on no samples
\* or on a missing target value
predict_stock_price(df) ==
    LET n == NRows(df)
        X == [i \in 1..n |-> Num(i - 1)]
        y == df.col["Close"]
    IN  IF n = 0 \/ \E i \in 1..n : y[i].nan
        THEN [raised |-> TRUE, value |-> NaN]
        ELSE [raised |-> FALSE,
              value  |-> Round(ModelPredict(LinearRegressionFit(X, y),
                                            Num(future_day(n))), 2)]

(***************************************************************************)
(* CSV: a header line and one line per row; a cell is the decimal text of  *)
(* a value (written here as the number it denotes) or the empty text.      *)
(***************************************************************************)
Text(v) == IF v.nan THEN <<>> ELSE <<v.n, v.d>>

Parse(t) == IF t = <<>> THEN NaN ELSE Q(t[1], t[2])

to_csv(df) ==
    [header |-> <<"Date">> \o Names(df),
     lines  |-> [i \in 1..NRows(df) |->
                   <<Text(Num(df.index[i]))>> \o
                   [j \in 1..Len(Names(df)) |-> Text(df.col[Names(df)[j]][i])]]]

(***************************************************************************)
(* The inputs: what the sidebar can hold and what yf.download can return.  *)
(***************************************************************************)
Symbols == {"", "AAPL", "ZZZZ"}

Periods == {"1mo", "3mo"}

\* the kinds of row of a fetched table: a close of 10, a close of 15, a day
\* without prices, a day without a volume, and three closes that make the
\* last change 15, 12.5 and 0.01
KindRow(k) ==
    CASE k = "lo"   -> Row(Num(10), Num(1000))
      [] k = "hi"   -> Row(Num(15), Num(1000))
      [] k = "nan"  -> Row(NaN, Num(0))
      [] k = "gap"  -> Row(Num(10), NaN)
      [] k = "p25"  -> Row(Num(25), Num(1000))
      [] k = "p22h" -> Row(Q(45, 2), Num(1000))
      [] k = "p10c" -> Row(Q(1001, 100), Num(1000))

SeqsOf(S, lo, hi) == UNION {[1..k -> S] : k \in lo..hi}

KindFrame(ks) == DataFrame([i \in 1..Len(ks) |-> KindRow(ks[i])])

ShortTables == {KindFrame(ks) : ks \in SeqsOf({"lo", "hi", "nan"}, 0, MaxShort)}

Steady == [i \in 1..(Window - 2) |-> "lo"]

LongTables == {KindFrame(Steady \o ks) : ks \in SeqsOf({"lo", "hi", "nan"}, 1, MaxTail)}

SpecialTables ==
    {KindFrame(ks) : ks \in {<<"gap", "lo">>, <<"lo", "gap">>, <<"lo", "gap", "hi">>}}
    \cup
    {KindFrame(Steady \o ks) :
       ks \in {<<"lo", "lo", k>> : k \in {"p25", "p22h", "p10c"}}
              \cup {<<"lo", k, "lo">> : k \in {"p25", "p22h", "p10c"}}
              \cup {<<"lo", "gap", "hi", "hi">>, <<"lo", "hi", "gap">>,
                    <<"lo", "lo", "hi", "nan">>, <<"hi", "lo", "hi", "lo">>,
                    <<"lo", "lo", "hi", "p25">>, <<"lo", "hi", "hi", "hi">>}}

Quarter == KindFrame(Steady \o <<"hi", "hi", "hi">>)

\* the tables the market-data service may hold for a symbol and a period
History(s, p) ==
    IF s = "AAPL" /\ p = "1mo" THEN ShortTables \cup LongTables \cup SpecialTables
    ELSE IF s = "AAPL" THEN {Quarter}
    ELSE {KindFrame(<<>>)}

\* yf.download(symbol, period=period, auto_adjust=False): the column index
\* has one level, or two levels (field, ticker)
Download(s, p) ==
    UNION {{t, [t EXCEPT !.columns = <<RawColumns, [i \in 1..Len(RawColumns) |-> s]>>]} :
             t \in History(s, p)}

(***************************************************************************)
(* app.py                                                                  *)
(***************************************************************************)
VARIABLES symbol, period, cache, downloads, served, pc, returned, data, scalars, page,
          csv, predictIn, prediction, confidence, news

vars == <<symbol, period, cache, downloads, served, pc, returned, data, scalars, page,
          csv, predictIn, prediction, confidence, news>>

Keys == Symbols \X Periods

\* a key that leaves the period out
CacheKeySymbol(s, p) == <<s, "1mo">>

\* the key st.cache_data derives from the arguments of load_data
CacheKey(s, p) == <<s, p>>

\* the body of load_data after the download
load_data(df) ==
    IF Len(df.columns) > 1 THEN [df EXCEPT !.columns = <<df.columns[1]>>] ELSE df

\* data.empty alone
InsufficientEmpty(df) == NRows(df) = 0 \/ Len(Names(df)) = 0

\* data.empty or len(data) < 2
Insufficient(df) == (NRows(df) = 0 \/ Len(Names(df)) = 0) \/ NRows(df) < 2

Element(kind, label, value) ==
    [kind |-> kind, label |-> label, value |-> value, delta |-> NaN, icon |-> ""]

Header == <<Element("title", "", NaN), Element("caption", "", NaN)>>

Resting == {"idle", "blank", "stopped", "raised", "done"}

Init ==
    /\ symbol = "AAPL"
    /\ period = "1mo"
    /\ cache = <<>>
    /\ downloads = [k \in Keys |-> <<>>]
    /\ served = ""
    /\ pc = "idle"
    /\ returned = <<>>
    /\ data = <<>>
    /\ scalars = <<>>
    /\ page = <<>>
    /\ csv = <<>>
    /\ predictIn = <<>>
    /\ prediction = <<>>
    /\ confidence = <<>>
    /\ news = <<>>

\* the script starts again: nothing of the previous pass is kept but the cache
Rerun(s, p) ==
    /\ pc \in Resting
    /\ symbol' = s
    /\ period' = p
    /\ scalars' = <<>>
    /\ csv' = <<>>
    /\ predictIn' = <<>>
    /\ prediction' = <<>>
    /\ confidence' = <<>>
    /\ news' = <<>>

\* lines 76-78 on the table load_data returned
Guard(df) ==
    /\ returned' = <<df>>
    /\ IF Insufficient(df)
       THEN /\ page' = Append(Header, Element("error", "", NaN))
            /\ data' = <<df>>
            /\ pc' = "stopped"
       ELSE /\ page' = Header
            /\ data' = <<df>>
            /\ pc' = "metrics"

\* if symbol: is false
RequestBlank(p) ==
    /\ Rerun("", p)
    /\ page' = Header
    /\ pc' = "blank"
    /\ returned' = <<>>
    /\ data' = <<>>
    /\ served' = ""
    /\ UNCHANGED <<cache, downloads>>

\* load_data with no cached value for the arguments: download, store, return
RequestMiss(s, p) ==
    /\ s # ""
    /\ Rerun(s, p)
    /\ CacheKey(s, p) \notin DOMAIN cache
    /\ Len(downloads[<<s, p>>]) < MaxFetches
    /\ \E raw \in Download(s, p) :
         LET df == load_data(raw)
         IN  /\ cache' = [k \in DOMAIN cache \cup {CacheKey(s, p)} |->
                            IF k = CacheKey(s, p) THEN df ELSE cache[k]]
             /\ downloads' = [downloads EXCEPT ![<<s, p>>] = Append(@, df)]
             /\ served' = "download"
             /\ Guard(df)

\* load_data with a cached value: a copy of it is returned
RequestHit(s, p) ==
    /\ s # ""
    /\ Rerun(s, p)
    /\ CacheKey(s, p) \in DOMAIN cache
    /\ Guard(cache[CacheKey(s, p)])
    /\ served' = "cache"
    /\ UNCHANGED <<cache, downloads>>

Last(s) == s[Len(s)]
Prev(s) == s[Len(s) - 1]

\* lines 83-90
Scalars(df) ==
    LET last_close == Last(df.col["Close"])
        prev_close == Prev(df.col["Close"])
        delta      == FSub(last_close, prev_close)
    IN  [last_close  |-> last_close,
         prev_close  |-> prev_close,
         last_open   |-> Last(df.col["Open"]),
         last_high   |-> Last(df.col["High"]),
         last_volume |-> Last(df.col["Volume"]),
         delta       |-> delta,
         delta_icon  |-> IF FGt(delta, Num(0)) THEN "green" ELSE "red"]

\* int(...) of a missing volume raises ValueError
MetricsRaise ==
    /\ pc = "metrics"
    /\ Last(data[1].col["Volume"]).nan
    /\ pc' = "raised"
    /\ page' = Append(page, Element("exception", "ValueError", NaN))
    /\ UNCHANGED <<symbol, period, cache, downloads, served, returned, data, scalars, csv,
                   predictIn, prediction, confidence, news>>

Metrics ==
    /\ pc = "metrics"
    /\ ~Last(data[1].col["Volume"]).nan
    /\ LET v == Scalars(data[1])
       IN  /\ scalars' = <<v>>
           /\ page' = page \o
                <<Element("metric", "Open", Round(v.last_open, 2)),
                  [Element("metric", "Close", Round(v.last_close, 2))
                     EXCEPT !.delta = Round(v.delta, 2), !.icon = v.delta_icon],
                  Element("metric", "High", Round(v.last_high, 2)),
                  Element("metric", "Volume", v.last_volume),
                  Element("divider", "", NaN)>>
    /\ pc' = "chart"
    /\ UNCHANGED <<symbol, period, cache, downloads, served, returned, data, csv,
                   predictIn, prediction, confidence, news>>

\* lines 112-139
ChartTab ==
    /\ pc = "chart"
    /\ LET sma == SetColumn(data[1], "SMA_20", RollingMean(data[1].col["Close"], Window))
           ema == SetColumn(sma, "EMA_20", EwmMean(sma.col["Close"], Span))
       IN  data' = <<ema>>
    /\ page' = Append(page, Element("plotly_chart", symbol, NaN))
    /\ pc' = "datatab"
    /\ UNCHANGED <<symbol, period, cache, downloads, served, returned, scalars, csv,
                   predictIn, prediction, confidence, news>>

\* lines 142-150
DataTab ==
    /\ pc = "datatab"
    /\ csv' = <<to_csv(data[1])>>
    /\ page' = page \o <<Element("dataframe", "", NaN),
                         Element("download_button", symbol, NaN)>>
    /\ pc' = "prediction"
    /\ UNCHANGED <<symbol, period, cache, downloads, served, returned, data, scalars,
                   predictIn, prediction, confidence, news>>

\* min(95, 70 + delta * 2)
ConfidenceSigned(delta) == PyMin(Num(95), FAdd(Num(70), FMul(delta, Num(2))))

\* min(95, 70 + abs(delta) * 2)
Confidence(delta) == PyMin(Num(95), FAdd(Num(70), FMul(FAbs(delta), Num(2))))

\* the argument of the call on line 154
PredictionInput(df) == dropna(df)

\* line 154 raises: the pass ends in the predictor's ValueError
PredictionRaise ==
    /\ pc = "prediction"
    /\ predict_stock_price(PredictionInput(data[1])).raised
    /\ predictIn' = <<PredictionInput(data[1])>>
    /\ pc' = "raised"
    /\ page' = Append(page, Element("exception", "ValueError", NaN))
    /\ UNCHANGED <<symbol, period, cache, downloads, served, returned, data, scalars, csv,
                   prediction, confidence, news>>

\* lines 153-159
PredictionTab ==
    /\ pc = "prediction"
    /\ ~predict_stock_price(PredictionInput(data[1])).raised
    /\ predictIn' = <<PredictionInput(data[1])>>
    /\ prediction' = <<predict_stock_price(PredictionInput(data[1])).value>>
    /\ confidence' = <<Confidence(scalars[1].delta)>>
    /\ page' = page \o
         <<Element("success", "Predicted Next Close", Round(prediction'[1], 2)),
           Element("info", "Model Confidence", Round(confidence'[1], 1))>>
    /\ pc' = "news"
    /\ UNCHANGED <<symbol, period, cache, downloads, served, returned, data, scalars, csv, news>>

NewsLimit == 5

\* lines 162-175, k articles being available
NewsTab ==
    /\ pc = "news"
    /\ \E k \in {0, 1, MaxNews} :
         LET shown == IF k < NewsLimit THEN k ELSE NewsLimit
         IN  /\ news' = <<shown>>
             /\ page' = page \o
                  (IF shown = 0 THEN <<Element("warning", "", NaN)>>
                   ELSE [i \in 1..shown |-> Element("markdown", "article", Num(i))])
    /\ pc' = "done"
    /\ UNCHANGED <<symbol, period, cache, downloads, served, returned, data, scalars, csv,
                   predictIn, prediction, confidence>>

Next ==
    \/ \E p \in Periods : RequestBlank(p)
    \/ \E s \in Symbols, p \in Periods : RequestMiss(s, p)
    \/ \E s \in Symbols, p \in Periods : RequestHit(s, p)
    \/ MetricsRaise
    \/ Metrics
    \/ ChartTab
    \/ DataTab
    \/ PredictionRaise
    \/ PredictionTab
    \/ NewsTab

Spec == Init /\ [][Next]_vars

(***************************************************************************)
(* predict_stock_price on its own: called on straight lines of closes, on  *)
(* lines with one close moved off the line, on no rows, and on a missing   *)
(* close.                                                                  *)
(***************************************************************************)
Slopes == {Num(0), Q(1, 250), Q(-3, 2), Num(2)}

Intercepts == {Num(0), Num(10), Q(10001, 1000)}

LineFrame(n, m, c, b) ==
    DataFrame([i \in 1..n |->
                 Row(FAdd(FAdd(c, FMul(m, Num(i - 1))), IF i = b THEN Num(1) ELSE Num(0)),
                     Num(1000))])

PredictInputs ==
    {LineFrame(n, m, c, b) : n \in 0..MaxN, m \in Slopes, c \in Intercepts, b \in 0..MaxN}
    \cup {KindFrame(<<"lo", "nan", "hi">>)}

InitPredict ==
    /\ symbol = ""
    /\ period = "1mo"
    /\ cache = <<>>
    /\ downloads = [k \in Keys |-> <<>>]
    /\ served = ""
    /\ pc = "call"
    /\ returned = <<>>
    /\ data = <<>>
    /\ scalars = <<>>
    /\ page = <<>>
    /\ csv = <<>>
    /\ predictIn = <<>>
    /\ prediction = <<>>
    /\ confidence = <<>>
    /\ news = <<>>

CallPredict ==
    /\ pc = "call"
    /\ \E df \in PredictInputs :
         /\ ~predict_stock_price(df).raised
         /\ predictIn' = <<df>>
         /\ prediction' = <<predict_stock_price(df).value>>
    /\ pc' = "returned"
    /\ UNCHANGED <<symbol, period, cache, downloads, served, returned, data, scalars,
                   page, csv, confidence, news>>

CallPredictRaise ==
    /\ pc = "call"
    /\ \E df \in PredictInputs :
         /\ predict_stock_price(df).raised
         /\ predictIn' = <<df>>
         /\ prediction' = <<>>
    /\ pc' = "raised"
    /\ UNCHANGED <<symbol, period, cache, downloads, served, returned, data, scalars,
                   page, csv, confidence, news>>

NextPredict == CallPredict \/ CallPredictRaise

SpecPredict == InitPredict /\ [][NextPredict]_vars

(***************************************************************************)
(* Properties.                                                             *)
(***************************************************************************)
Shown(v) == v # <<>>

Closes(df) == df.col["Close"]

\* y is a straight line over its positions: y[i] = y[1] + (i - 1) * (y[2] - y[1])
IsLine(y) ==
    \A i \in 1..Len(y) :
      y[i] = FAdd(y[1], FMul(Num(i - 1), FSub(y[2], y[1])))

\* the line through y[1] and y[2] at DayIndex x
LineAt(y, x) == FAdd(y[1], FMul(Num(x), FSub(y[2], y[1])))

\* C1: on n >= 2 closes that lie exactly on a line m*i + c (i = 0..n-1, any
\* slope, m = 0 included), predict_stock_price returns round(m*(n+1) + c, 2):
\* the line is evaluated at DayIndex n+1 and a constant series gives back its
\* constant rounded to two decimals.
C1_LinearRecovery ==
    (pc = "returned" /\ NRows(predictIn[1]) >= 2 /\ IsLine(Closes(predictIn[1])))
    => LET y == Closes(predictIn[1])
       IN  /\ prediction = <<Round(LineAt(y, Len(y) + 1), 2)>>
           /\ (y[2] = y[1] => prediction = <<Round(y[1], 2)>>)

\* a rising line of three or more closes whose value at n+1 needs rounding
C1_Witness ==
    /\ pc = "returned"
    /\ NRows(predictIn[1]) >= 3
    /\ IsLine(Closes(predictIn[1]))
    /\ FGt(Closes(predictIn[1])[2], Closes(predictIn[1])[1])
    /\ prediction[1] # LineAt(Closes(predictIn[1]), NRows(predictIn[1]) + 1)

\* C2: a fetched table that is empty or has fewer than 2 rows ends the pass in
\* the error message: nothing but the title, the caption and the error is on
\* the page, no metric, chart, table, CSV, forecast, confidence or news step
\* has run and the predictor has not been called.
C2_InsufficientStops ==
    (Shown(returned) /\ NRows(returned[1]) < 2)
    => /\ pc = "stopped"
       /\ page = Append(Header, Element("error", "", NaN))
       /\ scalars = <<>>
       /\ csv = <<>>
       /\ predictIn = <<>>
       /\ prediction = <<>>
       /\ confidence = <<>>
       /\ news = <<>>
       /\ data = returned

\* a pass stopped on a table of one row
C2_Witness ==
    /\ pc = "stopped"
    /\ Shown(returned)
    /\ NRows(returned[1]) = 1

\* last close minus previous close of the table load_data returned
RawDelta == FSub(Last(Closes(returned[1])), Prev(Closes(returned[1])))

\* C3: the confidence of a pass is min(95, 70 + 2*|delta|) for delta the last
\* close minus the previous close of the fetched table: never below 70, never
\* above 95, 70 when delta = 0 and 95 when |delta| >= 12.5.
C3_Confidence ==
    Shown(confidence)
    => LET c   == confidence[1]
           mag == IF RawDelta.n < 0 THEN FNeg(RawDelta) ELSE RawDelta
           raw == FAdd(Num(70), FAdd(mag, mag))
       IN  /\ ~c.nan
           /\ ~FLt(c, Num(70))
           /\ ~FGt(c, Num(95))
           /\ (~RawDelta.nan => c = (IF FLt(raw, Num(95)) THEN raw ELSE Num(95)))
           /\ (RawDelta = Num(0) => c = Num(70))
           /\ ((~RawDelta.nan /\ ~FLt(mag, Q(25, 2))) => c = Num(95))

\* a pass that shows a confidence of 80 for a fall of 5
C3_Witness ==
    /\ Shown(confidence)
    /\ RawDelta = Num(-5)
    /\ confidence[1] = Num(80)

\* the table a CSV text parses to, its first column being the index
read_csv(text) ==
    LET names == Tail(text.header)
    IN  [columns |-> <<names>>,
         index   |-> [i \in 1..Len(text.lines) |-> Parse(text.lines[i][1]).n],
         col     |-> [c \in Range(names) |->
                        [i \in 1..Len(text.lines) |->
                           Parse(text.lines[i][1 + CHOOSE j \in 1..Len(names) : names[j] = c])]]]

\* C4: the CSV of a pass is the fetched table: the header is Date and the
\* fetched columns, and parsing the CSV gives back the fetched table.
C4_CsvIsFetchedTable ==
    Shown(csv)
    => /\ csv[1].header = <<"Date">> \o Names(returned[1])
       /\ read_csv(csv[1]) = returned[1]

\* C5: no step of a pass changes the table load_data returned.
C5_TableUnchanged ==
    (Shown(returned) /\ Shown(data)) => data[1] = returned[1]

\* C6: yf.download runs at most once for a (symbol, period), and every pass is
\* served the table that the first download for its own symbol and period
\* produced, an empty one included.
C6_OneFetchPerKey ==
    /\ \A k \in Keys : Len(downloads[k]) <= 1
    /\ Shown(returned)
       => /\ downloads[<<symbol, period>>] # <<>>
          /\ returned[1] = downloads[<<symbol, period>>][1]

\* a pass served an empty table from the cache while another key is cached
C6_Witness ==
    /\ served = "cache"
    /\ NRows(returned[1]) = 0
    /\ symbol = "AAPL"
    /\ period = "1mo"
    /\ downloads[<<"AAPL", "3mo">>] # <<>>

HasColumn(name) == Shown(data) /\ name \in DOMAIN data[1].col

\* the mean of the complete window that ends at row i, missing if a close of
\* the window is missing
WindowMean(y, i) == FDiv(FSum(SubSeq(y, i - 19, i)), Num(20))

\* C7: SMA_20 is missing at the zero-indexed positions below 19 and is the mean
\* of Close[i-19..i] from position 19 on (rows are numbered from 1 here).
C7_SMA ==
    HasColumn("SMA_20")
    => \A i \in 1..NRows(returned[1]) :
         data[1].col["SMA_20"][i] =
           (IF i - 1 < 19 THEN NaN ELSE WindowMean(Closes(returned[1]), i))

\* a defined SMA_20 value over a window of unequal closes
C7_Witness ==
    /\ HasColumn("SMA_20")
    /\ \E i \in 1..NRows(data[1]) :
         /\ ~data[1].col["SMA_20"][i].nan
         /\ data[1].col["SMA_20"][i] # Closes(data[1])[i]
         /\ data[1].col["SMA_20"][i] # Num(10)

\* EMA_0 = Close_0, EMA_i = a*Close_i + (1-a)*EMA_(i-1) with a = 2/21, and a
\* value at every position
EmaRecursion ==
    LET y == Closes(returned[1])
        e == data[1].col["EMA_20"]
    IN  \A i \in 1..Len(y) :
          /\ ~e[i].nan
          /\ e[i] = (IF i = 1 THEN y[1]
                     ELSE FAdd(FMul(Q(2, 21), y[i]), FMul(Q(19, 21), e[i - 1])))

\* C8 as stated: for every fetched series EMA_20 follows the recursion and is
\* defined at every position.
C8_EMA_EverySeries == HasColumn("EMA_20") => EmaRecursion

NoMissingClose == \A i \in 1..NRows(returned[1]) : ~Closes(returned[1])[i].nan

\* C8 amended: for every fetched series without a missing Close, EMA_20 follows
\* the recursion and is defined at every position.
C8_EMA_NoMissingClose == (HasColumn("EMA_20") /\ NoMissingClose) => EmaRecursion

\* EMA_20 differs from Close at a position where SMA_20 is missing
C8_Witness ==
    /\ HasColumn("EMA_20")
    /\ NoMissingClose
    /\ \E i \in 2..NRows(data[1]) :
         /\ i - 1 < 19
         /\ data[1].col["SMA_20"][i].nan
         /\ data[1].col["EMA_20"][i] # Closes(data[1])[i]

\* the rows of the fetched table without a missing raw field
CompleteFetched == Take(returned[1], CompleteUpTo(returned[1], NRows(returned[1])))

\* C9: the forecast of a pass is fitted over every fetched observation without
\* a missing raw field and evaluated at their number plus one.
C9_ForecastOverWholeSeries ==
    Shown(prediction)
    => /\ predictIn[1].index = CompleteFetched.index
       /\ prediction[1] = predict_stock_price(CompleteFetched).value

\* C10: a fetched series of 2 or more rows, none with a missing raw field,
\* reaches the predictor with at least one row and goes on to the forecast.
C10_PredictorGetsRows ==
    (Shown(predictIn) /\ Shown(returned) /\ NRows(returned[1]) >= 2
       /\ NRows(CompleteFetched) = NRows(returned[1]))
    => /\ NRows(predictIn[1]) > 0
       /\ pc # "raised"
====
